---- MODULE Spec2Model ----
(***************************************************************************)
(* A model of viewer.py: the module-level script (argument parsing,        *)
(* optional extraction of the PDF's embedded images into the folder        *)
(* "images") followed by the ImageViewer window and its event handlers.    *)
(*                                                                         *)
(* File names are sequences of character codes, so that formatting the     *)
(* counter, matching "*.png" and sorting the listing are computed the way  *)
(* Python computes them on strings.                                        *)
(***************************************************************************)
EXTENDS Integers, Sequences, FiniteSets, TLC

VARIABLES
    pc,             \* position of the script / life cycle of the window
    argv,           \* sys.argv[1:], the words after the program name
    pathStatus,     \* what sys.argv[1] names on disk: "absent", "unreadable", "good"
    pdf_path,       \* viewer.py:22
    use_buffered,   \* viewer.py:37,40
    reader,         \* viewer.py:43, the opened document: images per page
    opened,         \* has PdfReader(pdf_path) been called (history)
    dirExists,      \* does the folder "images" exist
    files,          \* the folder's files: name -> content
    fs0,            \* the folder as it was when the program started (history)
    page,           \* loop position, viewer.py:60 (1-based)
    i,              \* loop position, viewer.py:62 (enumerate index)
    icount,         \* viewer.py:59
    written,        \* the save calls that succeeded, in order (history)
    exitStatus,     \* process exit status, -1 while running
    message,        \* what the process printed last
    image_files,    \* ImageViewer.image_files
    current_index,  \* ImageViewer.current_index
    alwaysOnTop,    \* ImageViewer.alwaysOnTop
    hint,           \* the window's Qt.WindowStaysOnTopHint flag
    shown,          \* the file whose pixmap the label shows, <<>> for none
    title,          \* window title: <<>> for "PDF Image Viewer", else <<pos, total>>
    exc,            \* exception raised by the last event handler, or "none"
    trail,          \* the last two handlers' logical operations (history)
    streak,         \* the current run of equal navigation operations (history)
    last,           \* the branch the last event handler took (history)
    toggles,        \* the number of T/A key presses, modulo 2 (history)
    ca, cb, cmp     \* two counter values and the comparison of their file names

vars == << pc, argv, pathStatus, pdf_path, use_buffered, reader, opened, dirExists,
           files, fs0, page, i, icount, written, exitStatus, message, image_files,
           current_index, alwaysOnTop, hint, shown, title, exc, trail, streak,
           last, toggles, ca, cb, cmp >>

----------------------------------------------------------------------------
(* Bounds of the model *)

MaxPages == 2
MaxImages == 3

----------------------------------------------------------------------------
(* Strings as sequences of character codes *)

\* the width in the format spec of f"images/image_{icount:06d}.png"
PadWidth == 6

\* "image_"
ImagePrefix == << 105, 109, 97, 103, 101, 95 >>

\* ".png"
PngSuffix == << 46, 112, 110, 103 >>

\* "fig.png"
FigPng == << 102, 105, 103, 46, 112, 110, 103 >>

\* "notes.txt"
NotesTxt == << 110, 111, 116, 101, 115, 46, 116, 120, 116 >>

\* ".thumb.png"
HiddenPng == << 46, 116, 104, 117, 109, 98, 46, 112, 110, 103 >>

RECURSIVE Decimal(_)
\* str(n) for n >= 0: the decimal digits, most significant first
Decimal(n) ==
    IF n < 10 THEN << 48 + n >>
    ELSE Append(Decimal(n \div 10), 48 + (n % 10))

RECURSIVE Zeros(_)
Zeros(k) == IF k <= 0 THEN << >> ELSE << 48 >> \o Zeros(k - 1)

\* format(n, "06d") with w = 6: pads with zeros up to the width, never truncates
FormatCounter(n, w) ==
    LET d == Decimal(n) IN Zeros(w - Len(d)) \o d

\* the file name of viewer.py:64, without the common "images/" part
FileName(n) == ImagePrefix \o FormatCounter(n, PadWidth) \o PngSuffix

\* str.__lt__: code point by code point, a proper prefix is smaller
RECURSIVE LexLess(_, _)
LexLess(a, b) ==
    IF b = << >> THEN FALSE
    ELSE IF a = << >> THEN TRUE
    ELSE IF Head(a) # Head(b) THEN Head(a) < Head(b)
    ELSE LexLess(Tail(a), Tail(b))

EndsWith(s, suf) ==
    /\ Len(s) >= Len(suf)
    /\ SubSeq(s, Len(s) - Len(suf) + 1, Len(s)) = suf

\* glob's "*.png" on one base name: "*" does not match a leading dot
MatchesPng(name) ==
    /\ EndsWith(name, PngSuffix)
    /\ Head(name) # 46

\* glob("images/*.png"): [] when the folder does not exist
Glob(exists, names) ==
    IF exists THEN { n \in names : MatchesPng(n) } ELSE {}

RECURSIVE Sorted(_)
\* sorted(...) of a list of distinct strings
Sorted(S) ==
    IF S = {} THEN << >>
    ELSE LET m == CHOOSE x \in S : \A y \in S \ {x} : LexLess(x, y)
         IN << m >> \o Sorted(S \ {m})

----------------------------------------------------------------------------
(* Inputs: the command line, the PDF and the folder the program finds *)

PdfArg == "doc.pdf"

\* sys.argv[1:]
ArgvChoices ==
    { << >>, << PdfArg >>, << PdfArg, "-b" >>, << "-b", PdfArg >>, << "-b" >> }

PathStatuses == { "absent", "unreadable", "good" }

RECURSIVE Sum(_)
Sum(s) == IF s = << >> THEN 0 ELSE Head(s) + Sum(Tail(s))

\* a document: the number of embedded images of each page, in page order
Docs ==
    UNION { { d \in [1..k -> 0..MaxImages] : Sum(d) <= MaxImages } : k \in 0..MaxPages }

OldContent == [src |-> "old", page |-> 0, i |-> 0]

OldFiles(names) == [n \in names |-> OldContent]

\* the folder "images" before the run: absent, empty, the output of an earlier
\* run with more images than any document here, or a mix of files
FolderChoices ==
    { [exists |-> FALSE, files |-> OldFiles({})],
      [exists |-> TRUE, files |-> OldFiles({})],
      [exists |-> TRUE, files |-> OldFiles({ FileName(n) : n \in 0..MaxImages })],
      [exists |-> TRUE,
       files |-> OldFiles({ FileName(0), FigPng, NotesTxt, HiddenPng })] }

NoStreak == [op |-> "none", len |-> 0, start |-> 0]

Init ==
    /\ pc = "parse_args"
    /\ argv \in ArgvChoices
    /\ pathStatus \in IF argv = << >> THEN { "absent" } ELSE PathStatuses
    /\ \E f \in FolderChoices :
          /\ dirExists = f.exists
          /\ files = f.files
          /\ fs0 = f
    /\ pdf_path = ""
    /\ use_buffered = FALSE
    /\ reader = << >>
    /\ page = 0
    /\ i = 0
    /\ icount = 0
    /\ written = << >>
    /\ exitStatus = -1
    /\ message = "none"
    /\ image_files = << >>
    /\ current_index = 0
    /\ alwaysOnTop = FALSE
    /\ hint = FALSE
    /\ shown = << >>
    /\ title = << >>
    /\ exc = "none"
    /\ trail = << >>
    /\ streak = NoStreak
    /\ last = "none"
    /\ toggles = 0
    /\ opened = FALSE
    /\ ca = 0
    /\ cb = 0
    /\ cmp = << >>

viewerVars == << image_files, current_index, alwaysOnTop, hint, shown, title, exc,
                 trail, streak, last, toggles >>
fsVars == << dirExists, files, fs0 >>
loopVars == << page, i, icount, written >>
probeVars == << ca, cb, cmp >>

----------------------------------------------------------------------------
(* The script: argument parsing, viewer.py:21-40 *)

\* len(sys.argv) > 1
ArgGiven(a) == Len(a) > 0

\* an existence check that always passes
PathExists_always(status) == TRUE

\* os.path.exists(pdf_path)
PathExists(status) == status # "absent"

\* "-b" in sys.argv
BufferedFlag(a) == \E k \in 1..Len(a) : a[k] = "-b"

\* sys.exit(1) after a message
Exit(msg) ==
    /\ pc' = "exited"
    /\ exitStatus' = 1
    /\ message' = msg

\* an uncaught exception at module level: traceback, exit status 1
Abort ==
    /\ pc' = "aborted"
    /\ exitStatus' = 1
    /\ message' = "traceback"

ParseArgs ==
    /\ pc = "parse_args"
    /\ IF ArgGiven(argv)
       THEN /\ pdf_path' = argv[1]
            /\ pc' = "check_exists"
            /\ UNCHANGED << exitStatus, message >>
       ELSE /\ Exit("usage")
            /\ UNCHANGED pdf_path
    /\ UNCHANGED << argv, opened, pathStatus, use_buffered, reader >>
    /\ UNCHANGED << fsVars, loopVars, viewerVars, probeVars >>

CheckExists ==
    /\ pc = "check_exists"
    /\ IF PathExists(pathStatus)
       THEN /\ pc' = "check_flag"
            /\ UNCHANGED << exitStatus, message >>
       ELSE Exit("not_exist")
    /\ UNCHANGED << argv, opened, pathStatus, pdf_path, use_buffered, reader >>
    /\ UNCHANGED << fsVars, loopVars, viewerVars, probeVars >>

\* creating and purging the folder before the document is opened
AfterFlagCheck_folderFirst == "mkdir"

\* the statement that follows the flag check: viewer.py:43, in both modes
AfterFlagCheck == "open_pdf"

CheckFlag ==
    /\ pc = "check_flag"
    /\ use_buffered' = BufferedFlag(argv)
    /\ message' = IF BufferedFlag(argv) THEN "buffered" ELSE message
    /\ pc' = AfterFlagCheck
    /\ UNCHANGED << argv, opened, pathStatus, pdf_path, reader, exitStatus >>
    /\ UNCHANGED << fsVars, loopVars, viewerVars, probeVars >>

----------------------------------------------------------------------------
(* The script: opening the document and extracting, viewer.py:43-67 *)

\* PdfReader(pdf_path) returns only for a readable PDF file
Readable(status) == status = "good"

\* reader = PdfReader(pdf_path), run in both modes
OpenPdf ==
    /\ pc = "open_pdf"
    /\ IF Readable(pathStatus)
       THEN /\ reader' \in Docs
            /\ pc' = "extract_guard"
            /\ UNCHANGED << exitStatus, message >>
       ELSE /\ Abort
            /\ UNCHANGED reader
    /\ opened' = TRUE
    /\ UNCHANGED << argv, pathStatus, pdf_path, use_buffered >>
    /\ UNCHANGED << fsVars, loopVars, viewerVars, probeVars >>

\* extraction that ignores the -b flag
ShouldExtract_always(buffered) == TRUE

\* if not use_buffered:
ShouldExtract(buffered) == ~buffered

ExtractGuard ==
    /\ pc = "extract_guard"
    /\ pc' = IF ShouldExtract(use_buffered) THEN "mkdir" ELSE "main"
    /\ UNCHANGED << argv, opened, pathStatus, pdf_path, use_buffered, reader, exitStatus,
                    message >>
    /\ UNCHANGED << fsVars, loopVars, viewerVars, probeVars >>

\* if not os.path.exists("images"): os.mkdir("images")
EnsureDir ==
    /\ pc = "mkdir"
    /\ dirExists' = TRUE
    /\ pc' = "purge"
    /\ UNCHANGED << argv, opened, pathStatus, pdf_path, use_buffered, reader, exitStatus,
                    message, files, fs0 >>
    /\ UNCHANGED << loopVars, viewerVars, probeVars >>

\* a purge that removes nothing
PurgeTargets_none(exists, names) == {}

\* a purge that removes every file of the folder
PurgeTargets_all(exists, names) == IF exists THEN names ELSE {}

\* the names the purge loop removes: glob("images/*.png")
PurgeTargets(exists, names) == Glob(exists, names)

Restrict(f, names) == [n \in names |-> f[n]]

\* for g in glob("images/*.png"): os.remove(g); then icount = 0
Purge ==
    /\ pc = "purge"
    /\ files' = Restrict(files, DOMAIN files \ PurgeTargets(dirExists, DOMAIN files))
    /\ icount' = 0
    /\ page' = 1
    /\ i' = 0
    /\ pc' = "extract"
    /\ UNCHANGED << argv, opened, pathStatus, pdf_path, use_buffered, reader, exitStatus,
                    message, dirExists, fs0, written >>
    /\ UNCHANGED << viewerVars, probeVars >>

\* naming by the index within the page instead of the global counter
SaveName_perPage(count, k) == FileName(k)

\* the name an image is saved under, viewer.py:64; k is enumerate's index
SaveName(count, k) == FileName(count)

\* a counter that advances by two
NextCount_skipping(count) == count + 2

\* icount += 1
NextCount(count) == count + 1

Store(f, name, content) ==
    [n \in DOMAIN f \cup { name } |-> IF n = name THEN content ELSE f[n]]

InLoopBody ==
    /\ pc = "extract"
    /\ page <= Len(reader)
    /\ i < reader[page]

\* one pass of the inner loop body: save the image, count it
SaveImage ==
    /\ InLoopBody
    /\ LET name == SaveName(icount, i)
           content == [src |-> "pdf", page |-> page, i |-> i]
       IN /\ files' = Store(files, name, content)
          /\ written' = Append(written, [name |-> name, page |-> page, i |-> i])
    /\ icount' = NextCount(icount)
    /\ i' = i + 1
    /\ UNCHANGED << pc, argv, opened, pathStatus, pdf_path, use_buffered, reader, exitStatus,
                    message, dirExists, fs0, page >>
    /\ UNCHANGED << viewerVars, probeVars >>

\* image_file_object.image or .save(filename) raises: nothing is caught
SaveFails ==
    /\ InLoopBody
    /\ Abort
    /\ UNCHANGED << argv, opened, pathStatus, pdf_path, use_buffered, reader >>
    /\ UNCHANGED << fsVars, loopVars, viewerVars, probeVars >>

\* the inner loop is exhausted: the outer loop takes the next page
NextPage ==
    /\ pc = "extract"
    /\ page <= Len(reader)
    /\ i = reader[page]
    /\ page' = page + 1
    /\ i' = 0
    /\ UNCHANGED << pc, argv, opened, pathStatus, pdf_path, use_buffered, reader, exitStatus,
                    message, icount, written >>
    /\ UNCHANGED << fsVars, viewerVars, probeVars >>

\* the outer loop is exhausted
ExtractDone ==
    /\ pc = "extract"
    /\ page > Len(reader)
    /\ pc' = "main"
    /\ UNCHANGED << argv, opened, pathStatus, pdf_path, use_buffered, reader, exitStatus,
                    message >>
    /\ UNCHANGED << fsVars, loopVars, viewerVars, probeVars >>

----------------------------------------------------------------------------
(* ImageViewer, viewer.py:73-188 *)

\* a remainder that truncates toward zero, as C's % does
PyMod_truncating(a, n) == IF a >= 0 THEN a % n ELSE -((-a) % n)

\* Python's %: the result has the sign of the (positive) divisor
PyMod(a, n) == a % n

\* list indexing: a negative index counts from the end
PyIndex(seq, k) == IF k < 0 THEN seq[Len(seq) + k + 1] ELSE seq[k + 1]

\* update_image: what the label shows and the title, or the exception raised
UpdateImage(seq, idx, sh, ti) ==
    IF seq = << >>
    THEN [shown |-> sh, title |-> ti, raised |-> "none"]
    ELSE IF idx >= -Len(seq) /\ idx < Len(seq)
         THEN [shown |-> PyIndex(seq, idx), title |-> << idx + 1, Len(seq) >>,
               raised |-> "none"]
         ELSE [shown |-> sh, title |-> ti, raised |-> "IndexError"]

\* ImageViewer("images") and viewer.show(), viewer.py:194-197
Main ==
    /\ pc = "main"
    /\ LET listing == Sorted(Glob(dirExists, DOMAIN files))
           u == UpdateImage(listing, 0, << >>, << >>)
       IN /\ image_files' = listing
          /\ shown' = u.shown
          /\ title' = u.title
    /\ current_index' = 0
    /\ alwaysOnTop' = FALSE
    /\ hint' = FALSE
    /\ exc' = "none"
    /\ pc' = "running"
    /\ UNCHANGED << argv, opened, pathStatus, pdf_path, use_buffered, reader, exitStatus,
                    message, trail, streak, last, toggles >>
    /\ UNCHANGED << fsVars, loopVars, probeVars >>

\* navigation that forgets to call update_image
Assign_noRender(idx, n, value) ==
    IF n = 0
    THEN [idx |-> idx, raised |-> "ZeroDivisionError", render |-> FALSE]
    ELSE [idx |-> value, raised |-> "none", render |-> FALSE]

\* the effect of a handler's assignment to current_index: a modulo by
\* len(self.image_files) = 0 raises before anything is assigned
Assign(idx, n, value) ==
    IF n = 0
    THEN [idx |-> idx, raised |-> "ZeroDivisionError", render |-> FALSE]
    ELSE [idx |-> value, raised |-> "none", render |-> TRUE]

\* a handler that goes back to the first image
Keep_reset(idx, render) == [idx |-> 0, raised |-> "none", render |-> render]

\* a handler without a modulo: current_index is kept or set, nothing can raise
Keep(idx, render) == [idx |-> idx, raised |-> "none", render |-> render]

\* the two wheel directions exchanged
WheelIndex_swapped(dy, idx, n) ==
    IF dy > 0 THEN PyMod(idx + 1, n) ELSE PyMod(idx - 1, n)

\* a wheel event without vertical movement ignored
WheelIndex_zeroIgnored(dy, idx, n) ==
    IF dy > 0 THEN PyMod(idx - 1, n)
    ELSE IF dy = 0 THEN idx
    ELSE PyMod(idx + 1, n)

\* viewer.py:130 and 132
WheelIndex(dy, idx, n) ==
    IF dy > 0 THEN PyMod(idx - 1, n) ELSE PyMod(idx + 1, n)

\* Next without wraparound
KeyNextIndex_clamped(idx, n) == IF idx + 1 < n THEN idx + 1 ELSE idx

\* viewer.py:145
KeyNextIndex(idx, n) == PyMod(idx + 1, n)

\* Previous without wraparound
KeyPrevIndex_clamped(idx, n) == IF idx - 1 >= 0 THEN idx - 1 ELSE idx

\* viewer.py:148
KeyPrevIndex(idx, n) == PyMod(idx - 1, n)

\* viewer.py:157
HomeIndex(n) == 0

\* End one past the last index
EndIndex_len(n) == n

\* viewer.py:160
EndIndex(n) == n - 1

LastTwo(s) == IF Len(s) > 2 THEN SubSeq(s, Len(s) - 1, Len(s)) ELSE s

\* the history after a handler that ran the logical operation op
\* ("Next", "Previous" or "other") from index before
Remember(op, before, failed) ==
    IF op = "other" \/ failed
    THEN /\ trail' = << >>
         /\ streak' = NoStreak
    ELSE /\ trail' = LastTwo(Append(trail, [op |-> op, before |-> before]))
         /\ streak' = IF streak.op = op /\ streak.len < Len(image_files)
                      THEN [streak EXCEPT !.len = @ + 1]
                      ELSE [op |-> op, len |-> 1, start |-> before]

\* a handler runs to completion with effect e; an exception that leaves a
\* handler is printed, and the process goes on or is aborted by the binding
Complete(e, op) ==
    LET u == IF e.raised = "none" /\ e.render
             THEN UpdateImage(image_files, e.idx, shown, title)
             ELSE [shown |-> shown, title |-> title, raised |-> e.raised]
    IN /\ current_index' = e.idx
       /\ shown' = u.shown
       /\ title' = u.title
       /\ exc' = u.raised
       /\ Remember(op, current_index, u.raised # "none")
       /\ IF u.raised = "none"
          THEN UNCHANGED << pc, exitStatus, message >>
          ELSE /\ message' = "traceback"
               /\ \/ UNCHANGED << pc, exitStatus >>
                  \/ /\ pc' = "aborted"
                     /\ exitStatus' = 134
       /\ UNCHANGED << argv, opened, pathStatus, pdf_path, use_buffered, reader, image_files >>
       /\ UNCHANGED << fsVars, loopVars, probeVars >>

WheelDeltas == { -120, 0, 120 }

WheelOp(dy) == IF dy > 0 THEN "Previous" ELSE "Next"

\* the branch of wheelEvent, with the sign of the vertical delta
WheelBranch(dy) ==
    IF dy > 0 THEN "wheel_up" ELSE IF dy = 0 THEN "wheel_zero" ELSE "wheel_down"

\* wheelEvent on an event whose angleDelta().y() is dy
WheelOn(dy) ==
    /\ pc = "running"
    /\ Complete(Assign(current_index, Len(image_files),
                       WheelIndex(dy, current_index, Len(image_files))),
                WheelOp(dy))
    /\ last' = WheelBranch(dy)
    /\ UNCHANGED << alwaysOnTop, hint, toggles >>

wheelEvent == \E dy \in WheelDeltas : WheelOn(dy)

NextKeys == { "Right", "Down", "Space", "PageDown" }
PrevKeys == { "Left", "Up", "PageUp" }
ToggleKeys == { "T", "A" }
QuitKeys == { "Escape", "Q" }
Keys ==
    NextKeys \cup PrevKeys \cup ToggleKeys \cup QuitKeys
        \cup { "R", "Home", "End", "H", "X" }

\* the branch of keyPressEvent's if/elif chain that key k takes
KeyBranch(k) ==
    IF k \in NextKeys THEN "key_next"
    ELSE IF k \in PrevKeys THEN "key_prev"
    ELSE IF k = "R" THEN "key_refresh"
    ELSE IF k \in ToggleKeys THEN "key_toggle"
    ELSE IF k = "Home" THEN "key_home"
    ELSE IF k = "End" THEN "key_end"
    ELSE IF k \in QuitKeys THEN "key_quit"
    ELSE IF k = "H" THEN "key_help"
    ELSE "key_none"

\* a toggle that only ever switches the mode on
ToggleValue_set(top) == TRUE

\* self.alwaysOnTop = not self.alwaysOnTop
ToggleValue(top) == ~top

\* the value given to setWindowFlag(Qt.WindowStaysOnTopHint, self.alwaysOnTop)
HintValue(top) == top

\* self.close() ends app.exec_(); sys.exit(0)
Closing ==
    /\ pc' = "closed"
    /\ exitStatus' = 0
    /\ exc' = "none"
    /\ trail' = << >>
    /\ streak' = NoStreak
    /\ UNCHANGED << argv, opened, pathStatus, pdf_path, use_buffered, reader, message,
                    image_files, current_index, shown, title >>
    /\ UNCHANGED << fsVars, loopVars, probeVars >>

\* keyPressEvent on an event whose key() is k
KeyOn(k) ==
    /\ pc = "running"
    /\ last' = KeyBranch(k)
    /\ LET n == Len(image_files) IN
       IF k \in NextKeys
       THEN /\ Complete(Assign(current_index, n, KeyNextIndex(current_index, n)),
                        "Next")
            /\ UNCHANGED << alwaysOnTop, hint, toggles >>
       ELSE IF k \in PrevKeys
       THEN /\ Complete(Assign(current_index, n, KeyPrevIndex(current_index, n)),
                        "Previous")
            /\ UNCHANGED << alwaysOnTop, hint, toggles >>
       ELSE IF k = "R"
       THEN /\ Complete(Keep(current_index, TRUE), "other")
            /\ UNCHANGED << alwaysOnTop, hint, toggles >>
       ELSE IF k \in ToggleKeys
       THEN /\ Complete(Keep(current_index, FALSE), "other")
            /\ alwaysOnTop' = ToggleValue(alwaysOnTop)
            /\ hint' = HintValue(alwaysOnTop')
            /\ toggles' = (toggles + 1) % 2
       ELSE IF k = "Home"
       THEN /\ Complete(Keep(HomeIndex(n), TRUE), "other")
            /\ UNCHANGED << alwaysOnTop, hint, toggles >>
       ELSE IF k = "End"
       THEN /\ Complete(Keep(EndIndex(n), TRUE), "other")
            /\ UNCHANGED << alwaysOnTop, hint, toggles >>
       ELSE IF k \in QuitKeys
       THEN /\ Closing
            /\ UNCHANGED << alwaysOnTop, hint, toggles >>
       ELSE /\ Complete(Keep(current_index, FALSE), "other")
            /\ UNCHANGED << alwaysOnTop, hint, toggles >>

keyPressEvent == \E k \in Keys : KeyOn(k)

resizeEvent ==
    /\ pc = "running"
    /\ Complete(Keep(current_index, TRUE), "other")
    /\ last' = "resize"
    /\ UNCHANGED << alwaysOnTop, hint, toggles >>

\* the user closes the window: app.exec_() returns 0
CloseWindow ==
    /\ pc = "running"
    /\ Closing
    /\ last' = "close"
    /\ UNCHANGED << alwaysOnTop, hint, toggles >>

----------------------------------------------------------------------------

Next ==
    \/ ParseArgs
    \/ CheckExists
    \/ CheckFlag
    \/ OpenPdf
    \/ ExtractGuard
    \/ EnsureDir
    \/ Purge
    \/ SaveImage
    \/ SaveFails
    \/ NextPage
    \/ ExtractDone
    \/ Main
    \/ wheelEvent
    \/ keyPressEvent
    \/ resizeEvent
    \/ CloseWindow

Spec == Init /\ [][Next]_vars

----------------------------------------------------------------------------
(* The order of two file names, as ImageViewer.__init__ lists them: the    *)
(* counter values are drawn around the point where the decimal form of     *)
(* the counter outgrows the width of the format.                           *)

CounterSamples == { 0, 1, 9, 10, 99, 100, 999998, 999999, 1000000, 1000001 }

FmtInit ==
    /\ pc = "listing"
    /\ ca \in CounterSamples
    /\ cb \in CounterSamples
    /\ cmp = << >>
    /\ argv = << PdfArg >>
    /\ pathStatus = "good"
    /\ dirExists = TRUE
    /\ files = OldFiles({})
    /\ fs0 = [exists |-> TRUE, files |-> OldFiles({})]
    /\ pdf_path = PdfArg
    /\ use_buffered = FALSE
    /\ reader = << >>
    /\ page = 0
    /\ i = 0
    /\ icount = 0
    /\ written = << >>
    /\ exitStatus = -1
    /\ message = "none"
    /\ image_files = << >>
    /\ current_index = 0
    /\ alwaysOnTop = FALSE
    /\ hint = FALSE
    /\ shown = << >>
    /\ title = << >>
    /\ exc = "none"
    /\ trail = << >>
    /\ streak = NoStreak
    /\ last = "none"
    /\ toggles = 0
    /\ opened = FALSE

\* sorted(glob(...)) on the files saved with counters ca and cb
ListPair ==
    /\ pc = "listing"
    /\ cmp' = Sorted(Glob(TRUE, { SaveName(ca, 0), SaveName(cb, 0) }))
    /\ pc' = "listed"
    /\ UNCHANGED << argv, opened, pathStatus, pdf_path, use_buffered, reader, exitStatus,
                    message, ca, cb >>
    /\ UNCHANGED << fsVars, loopVars, viewerVars >>

FmtNext == ListPair

FmtSpec == FmtInit /\ [][FmtNext]_vars

----------------------------------------------------------------------------
(* Properties *)

ViewerBuilt == pc \in { "running", "closed" } \/ (pc = "aborted" /\ exc # "none")

\* the non-buffered extraction ran to its end
Extracted == ~use_buffered /\ pc \in { "main", "running", "closed" }

RECURSIVE PageImages(_, _)
\* the images of page p holding c images, in their order within the page
PageImages(p, c) ==
    IF c = 0 THEN << >> ELSE Append(PageImages(p, c - 1), [page |-> p, i |-> c - 1])

RECURSIVE DocImages(_, _)
\* the images of the pages p..Len(d) of document d, in document order
DocImages(d, p) ==
    IF p > Len(d) THEN << >> ELSE PageImages(p, d[p]) \o DocImages(d, p + 1)

Range(seq) == { seq[k] : k \in 1..Len(seq) }

IsDigit(c) == c >= 48 /\ c <= 57

\* image_NNNNNN.png
IsOutputName(n) ==
    /\ Len(n) = Len(ImagePrefix) + PadWidth + Len(PngSuffix)
    /\ SubSeq(n, 1, Len(ImagePrefix)) = ImagePrefix
    /\ EndsWith(n, PngSuffix)
    /\ \A k \in 1..PadWidth : IsDigit(n[Len(ImagePrefix) + k])

\* C1: whenever the image set is non-empty, 0 <= current_index < N, after
\* initialization and after any sequence of wheel, key and resize events
C1_IndexInRange ==
    Len(image_files) >= 1 =>
        (0 <= current_index /\ current_index < Len(image_files))

\* Previous from index 0 has wrapped to the last index
C1_Witness ==
    /\ pc = "running"
    /\ Len(image_files) >= 2
    /\ trail # << >>
    /\ trail[Len(trail)].op = "Previous"
    /\ trail[Len(trail)].before = 0
    /\ current_index = Len(image_files) - 1

\* C2: on an empty image set every navigation operation is a no-op: no
\* exception leaves the handler, current_index stays as it was set at
\* construction (0) and the display stays empty
C2_EmptySetNavigationNoOp ==
    (ViewerBuilt /\ Len(image_files) = 0) =>
        (exc = "none" /\ current_index = 0 /\ shown = << >>)

\* C3: a successful extraction of a document with c_0, ..., c_{k-1} images
\* per page has saved exactly c_0+...+c_{k-1} files, the j-th under the name
\* of counter j (from 0) and holding the j-th image in (page, within-page)
\* order
C3_GlobalCounterNaming ==
    Extracted =>
        LET imgs == DocImages(reader, 1) IN
        /\ Len(written) = Sum(reader)
        /\ Len(written) = Len(imgs)
        /\ \A j \in 1..Len(imgs) :
              /\ written[j].name = FileName(j - 1)
              /\ written[j].page = imgs[j].page
              /\ written[j].i = imgs[j].i
              /\ written[j].name \in DOMAIN files
              /\ files[written[j].name]
                    = [src |-> "pdf", page |-> imgs[j].page, i |-> imgs[j].i]
        /\ Cardinality({ written[j].name : j \in 1..Len(written) }) = Len(imgs)

\* pages with 2 and 1 images: files 0 and 1 from the first page, 2 from the second
C3_Witness ==
    /\ Extracted
    /\ pc = "main"
    /\ reader = << 2, 1 >>
    /\ Len(written) = 3
    /\ written[3].page = 2

\* C4: after a successful non-buffered run the image files of the folder
\* (what "images/*.png" lists) are exactly the files this run has written,
\* each with the content this run gave it
C4_OnlyThisRunsImages ==
    Extracted =>
        /\ Glob(dirExists, DOMAIN files) = { written[j].name : j \in 1..Len(written) }
        /\ \A n \in Glob(dirExists, DOMAIN files) : files[n].src = "pdf"

\* an earlier run had left more images than this run wrote
C4_Witness ==
    /\ Extracted
    /\ pc = "main"
    /\ Len(written) >= 1
    /\ Cardinality({ n \in DOMAIN fs0.files : IsOutputName(n) }) > Len(written)

\* C5: without a PDF argument, or with a path that does not exist, the
\* program only runs the two checks and exits with status 1 and the
\* matching message; the folder is as it was and no viewer is built
C5_FailFastNoSideEffect ==
    (argv = << >> \/ pathStatus = "absent") =>
        /\ pc \in { "parse_args", "check_exists", "exited" }
        /\ dirExists = fs0.exists
        /\ files = fs0.files
        /\ written = << >>
        /\ ~ViewerBuilt
        /\ image_files = << >>
        /\ pc = "exited" =>
              /\ exitStatus = 1
              /\ message = IF argv = << >> THEN "usage" ELSE "not_exist"
        /\ pc # "exited" => exitStatus = -1

\* the path was given and does not exist: the program has exited
C5_Witness ==
    /\ argv # << >>
    /\ pathStatus = "absent"
    /\ fs0.exists
    /\ pc = "exited"
    /\ message = "not_exist"

IsSorted(seq) == \A a, b \in 1..Len(seq) : a < b => LexLess(seq[a], seq[b])

\* C6: with -b on the command line the folder is never created, purged or
\* written to, and the viewer's image set is the sorted list of the image
\* files that were there before the run (none for an absent or empty folder)
C6_BufferedLeavesFolder ==
    (\E k \in 1..Len(argv) : argv[k] = "-b") =>
        /\ dirExists = fs0.exists
        /\ files = fs0.files
        /\ written = << >>
        /\ ViewerBuilt =>
              /\ IsSorted(image_files)
              /\ Range(image_files)
                    = { n \in DOMAIN fs0.files : fs0.exists /\ MatchesPng(n) }

\* a buffered run shows the images an earlier run left
C6_Witness ==
    /\ use_buffered
    /\ pc = "running"
    /\ Len(image_files) >= 2
    /\ files = fs0.files

\* C7 as stated: every file that was in the folder and does not match
\* image_NNNNNN.png still exists, unchanged
C7_OnlyOutputNamesPurged ==
    \A n \in DOMAIN fs0.files :
        ~IsOutputName(n) => (n \in DOMAIN files /\ files[n] = fs0.files[n])

\* C7 amended: every file that was in the folder and does not match "*.png"
\* still exists, unchanged; the purge deletes the files matching "*.png",
\* whatever their names
C7_OnlyPngPurged ==
    /\ \A n \in DOMAIN fs0.files :
          ~MatchesPng(n) => (n \in DOMAIN files /\ files[n] = fs0.files[n])
    /\ (pc = "extract" /\ written = << >>) =>
          DOMAIN files = { n \in DOMAIN fs0.files : ~MatchesPng(n) }

\* the purge has run on a folder holding a differently named PNG and other files
C7_Witness ==
    /\ pc = "extract"
    /\ written = << >>
    /\ FigPng \in DOMAIN fs0.files
    /\ FigPng \notin DOMAIN files
    /\ NotesTxt \in DOMAIN files
    /\ HiddenPng \in DOMAIN files

\* C8: the sorted listing of the files saved with two counter values has
\* them in the order of the counters
C8_ListingInCounterOrder ==
    (pc = "listed" /\ ca < cb) => cmp = << FileName(ca), FileName(cb) >>

\* C9: N times Next in a row, or N times Previous in a row, returns
\* current_index to the value it had before the first of them
C9_FullCycleReturns ==
    (streak.op \in { "Next", "Previous" } /\ streak.len = Len(image_files)) =>
        current_index = streak.start

\* Next was applied N >= 3 times in a row, from an index other than 0
C9_Witness ==
    /\ pc = "running"
    /\ Len(image_files) >= 3
    /\ streak.op = "Next"
    /\ streak.len = Len(image_files)
    /\ streak.start # 0

\* C10: Next then Previous, and Previous then Next, restore the index that
\* was current before the two
C10_PreviousInvertsNext ==
    (Len(trail) = 2 /\ trail[1].op # trail[2].op) => current_index = trail[1].before

\* Next from the last index wrapped to 0 and Previous went back
C10_Witness ==
    /\ pc = "running"
    /\ Len(image_files) >= 2
    /\ Len(trail) = 2
    /\ trail[1].op = "Next"
    /\ trail[2].op = "Previous"
    /\ trail[1].before = Len(image_files) - 1
    /\ trail[2].before = 0

\* C11: with N >= 1, after the Home key current_index is 0 and after the
\* End key it is N - 1
C11_HomeAndEnd ==
    Len(image_files) >= 1 =>
        /\ last = "key_home" => current_index = 0
        /\ last = "key_end" => current_index = Len(image_files) - 1

\* End has been pressed with at least two images
C11_Witness ==
    /\ pc = "running"
    /\ Len(image_files) >= 2
    /\ last = "key_end"
    /\ current_index = Len(image_files) - 1

\* C12: from every viewer state with N >= 1 there is one value of
\* current_index that a wheel-up event and each Previous key lead to, and
\* one that a wheel-down event and each Next key lead to (each handler has
\* one outcome there, so these are the results of the events)
C12_WheelMatchesKeys ==
    (pc = "running" /\ Len(image_files) >= 1) =>
        /\ \A dy \in { d \in WheelDeltas : d > 0 } :
              \E idx \in 0..(Len(image_files) - 1) :
                  /\ ENABLED (WheelOn(dy) /\ current_index' = idx)
                  /\ \A k \in PrevKeys : ENABLED (KeyOn(k) /\ current_index' = idx)
        /\ \A dy \in { d \in WheelDeltas : d < 0 } :
              \E idx \in 0..(Len(image_files) - 1) :
                  /\ ENABLED (WheelOn(dy) /\ current_index' = idx)
                  /\ \A k \in NextKeys : ENABLED (KeyOn(k) /\ current_index' = idx)

\* a wheel-up event has wrapped from the first to the last of three or more images
C12_Witness ==
    /\ pc = "running"
    /\ Len(image_files) >= 3
    /\ last = "wheel_up"
    /\ trail # << >>
    /\ trail[Len(trail)].before = 0
    /\ current_index = Len(image_files) - 1

\* C13: no event handler changes the image set; Refresh, Help, the toggle
\* and resize leave current_index as it is, and Refresh, Help and resize
\* leave alwaysOnTop as it is too
C13_FrameOfOtherHandlers ==
    [][pc = "running" =>
          /\ image_files' = image_files
          /\ last' \in { "key_refresh", "key_help", "key_toggle", "resize" }
                => current_index' = current_index
          /\ last' \in { "key_refresh", "key_help", "resize" }
                => alwaysOnTop' = alwaysOnTop]_vars

\* Refresh was pressed away from the first image, in always-on-top mode
C13_Witness ==
    /\ pc = "running"
    /\ last = "key_refresh"
    /\ current_index >= 1
    /\ alwaysOnTop

\* C14: the window's stay-on-top hint always equals alwaysOnTop, which is
\* true exactly after an odd number of toggle key presses (false at first,
\* and back to its value after two presses)
C14_ToggleParity ==
    /\ hint = alwaysOnTop
    /\ alwaysOnTop <=> toggles = 1

\* the toggle key has been pressed an even number of times, at least twice
C14_Witness ==
    /\ pc = "running"
    /\ last = "key_toggle"
    /\ toggles = 0
    /\ ~alwaysOnTop
    /\ ~hint

OpenAborted == pc = "aborted" /\ exc = "none" /\ page = 0

\* the run was aborted inside the extraction loop, at counter value icount
SaveAborted == pc = "aborted" /\ exc = "none" /\ page >= 1

\* C16: when the save of the image with counter j fails, the run ends there:
\* the folder's image files are exactly those of counters 0..j-1, each as
\* this run wrote it, nothing stale and nothing later, and no viewer is built
C16_AbortKeepsWrittenPrefix ==
    SaveAborted =>
        LET imgs == DocImages(reader, 1) IN
        /\ icount < Len(imgs)
        /\ Len(written) = icount
        /\ Glob(dirExists, DOMAIN files) = { FileName(k) : k \in 0..(icount - 1) }
        /\ \A k \in 1..Len(written) :
              /\ written[k].name = FileName(k - 1)
              /\ files[FileName(k - 1)]
                    = [src |-> "pdf", page |-> imgs[k].page, i |-> imgs[k].i]
        /\ image_files = << >>
        /\ ~ViewerBuilt
        /\ ~ENABLED Next

\* the third image, on the second page, failed; an earlier run had left more
C16_Witness ==
    /\ SaveAborted
    /\ icount = 2
    /\ page = 2
    /\ FileName(MaxImages) \in DOMAIN fs0.files
    /\ FileName(MaxImages) \notin DOMAIN files

\* C17: with -b and an existing path, the document is never opened and the
\* run is never aborted before the viewer is built
C17_BufferedNeverOpensPdf ==
    (argv # << >> /\ pathStatus # "absent" /\ \E k \in 1..Len(argv) : argv[k] = "-b") =>
        /\ ~opened
        /\ ~OpenAborted

\* C18 as stated: a non-buffered run aborted by an unreadable PDF leaves the
\* folder existing and without image files
C18_FolderReadyBeforeOpen ==
    (OpenAborted /\ ~use_buffered) =>
        /\ dirExists
        /\ Glob(dirExists, DOMAIN files) = {}

\* C18 amended: the document is opened before the folder is created or
\* purged, so the folder is as the program found it until the document has
\* been opened, and stays so when opening it aborts the run
C18_OpenBeforeFolder ==
    /\ ~opened => (dirExists = fs0.exists /\ files = fs0.files)
    /\ pc \in { "mkdir", "purge", "extract" } => opened
    /\ OpenAborted => (dirExists = fs0.exists /\ files = fs0.files)

\* an unreadable PDF aborted a non-buffered run: the stale images are still there
C18_Witness ==
    /\ OpenAborted
    /\ ~use_buffered
    /\ pathStatus = "unreadable"
    /\ FileName(0) \in DOMAIN files
    /\ files = fs0.files

\* C19: with N >= 1 every wheel event moves current_index by one step
\* modulo N, back for a positive vertical delta and forward for any other,
\* a zero delta included; with N >= 2 the index is never where it was
C19_WheelAlwaysSteps ==
    (Len(image_files) >= 1 /\ last \in { "wheel_up", "wheel_zero", "wheel_down" }) =>
        /\ trail # << >>
        /\ LET n == Len(image_files)
               was == trail[Len(trail)].before
           IN /\ last = "wheel_up" => current_index = (was - 1) % n
              /\ last # "wheel_up" => current_index = (was + 1) % n
              /\ n >= 2 => current_index # was

\* a wheel event without vertical movement has stepped forward, past the end
C19_Witness ==
    /\ pc = "running"
    /\ Len(image_files) >= 2
    /\ last = "wheel_zero"
    /\ trail # << >>
    /\ trail[Len(trail)].before = Len(image_files) - 1
    /\ current_index = 0

====
